---- MODULE Spec2Model ----
(***************************************************************************)
(* Model of the staged ingestion pipeline of feeder/feeder.go:             *)
(* RyanairFeeder.Start runs clearDB (optional), fetchAirports,             *)
(* fetchRoutes (worker pool), fetchExchangeRates and fetchPrices (worker   *)
(* pool).  Goroutines are processes with a program counter; an unbuffered  *)
(* channel operation is a rendezvous of sender and receiver, the buffered  *)
(* error channel is a bounded queue.  feeder/ryanair.go is the earlier     *)
(* standalone form of fetchAirports and fetchRoutes (same channels, same   *)
(* lock, no store); the model follows feeder.go.                           *)
(*                                                                         *)
(* Abstractions: an error value is its kind (the message text is dropped); *)
(* an Airport embedded in a Route (From, To) keeps ID, Iata and Currency   *)
(* and drops the nested Destinations snapshot; a rate and a price are      *)
(* integers (rates in tenths); a time is a count of ticks and the float    *)
(* arithmetic of genDays is carried out step by step on a scaled float;    *)
(* a read of the airport index that nothing orders against a write of it   *)
(* either goes through or stops the process (MapFault).                    *)
(***************************************************************************)
EXTENDS Integers, Sequences, FiniteSets, TLC

\* ---------------------------------------------------------------- bounds
MaxWorkers == 2
MaxFlights == 2
MaxTick == 200

\* ------------------------------------------------------ program constants
\* an error channel that holds more than one error
ErrcCapWide == 1 + 1

\* errc := make(chan error, 1)
ErrcCap == 1

\* a time is a count of ticks (nanoseconds in the program), an hour is
\* HourTicks of them; a float has Mantissa significant bits (53 in the
\* program) and is held as a multiple of 1/FixedOne
HourTicks == 4
DayTicks == 24 * HourTicks
Mantissa == 7
FixedOne == 2^12

\* ------------------------------------------------- the remote data source
AirportsListing ==
    << [Iata |-> "AAA", Currency |-> "EUR"],
       [Iata |-> "BBB", Currency |-> "PLN"] >>

\* what the destinations endpoint answers per origin: a destination that is
\* an airport of the listing and one that is not; an answer whose origin code
\* is not an airport of the listing
Remotes ==
    { [AAA |-> << [IataFrom |-> "AAA", IataTo |-> "BBB"] >>,
       BBB |-> << [IataFrom |-> "BBB", IataTo |-> "ZZZ"] >>],
      [AAA |-> << [IataFrom |-> "AAA", IataTo |-> "BBB"] >>,
       BBB |-> << [IataFrom |-> "XXX", IataTo |-> "AAA"] >>] }

Codes == {AirportsListing[i].Iata : i \in 1..Len(AirportsListing)}

FirstIds == {1}

\* the exchange-rate service: the rate of a currency pair, in tenths
RateOf(name) == IF name = "EUR" THEN 43 ELSE 51

\* a flights response of n flights as decoded: the store ids and the
\* exchanged price are not part of the payload
FlightsResponse(n) ==
    [i \in 1..n |-> [Value |-> 100, ValueExchanged |-> 0, FromID |-> 0, ToID |-> 0]]

\* configured date ranges: one day, two days
DateRanges == {[From |-> 0, To |-> 0], [From |-> 0, To |-> DayTicks]}

\* ------------------------------------------------------------ data types
Nil == "nil"
FetchErrors == {"request", "transport", "status", "decode"}

ZeroRef == [ID |-> 0, Iata |-> "", Currency |-> ""]
ZeroAirport == [ID |-> 0, Iata |-> "", Currency |-> "", Destinations |-> << >>]

RefOf(a) == [ID |-> a.ID, Iata |-> a.Iata, Currency |-> a.Currency]

\* f.airports[k]: a Go map read of an absent key yields the zero value
Lookup(m, k) == IF k \in DOMAIN m THEN m[k] ELSE ZeroAirport

Workers == 1..MaxWorkers

StageOrder == << "clearDB", "fetchAirports", "fetchRoutes", "fetchExchangeRates", "fetchPrices" >>

VARIABLES
    remote,       \* the destinations endpoint: origin code -> routes
    cfg,          \* Config: ClearDb, WorkersNo, From, To, Currencies
    mpc,          \* position of the goroutine running Start
    stages,       \* stages begun so far, in order (history)
    ret,          \* per stage: "notrun", "running", Nil or the error returned
    nextId,       \* next node id of the store
    airports,     \* f.airports
    destinations, \* f.destinations
    mu,           \* f.mu: 0 when free, else the worker holding it
    airportsCh,   \* work channel of fetchRoutes: keys left to send, closed flag
    c,            \* result channel: closed flag
    errc,         \* error channel: buffer and closed flag
    wg,           \* WaitGroup counter
    sup,          \* supervisor goroutine position
    err,          \* err local of the draining stage
    recorded,     \* errors accepted by errc during the stage, in order (history)
    pc,           \* per worker position
    cur,          \* per worker: the item received (airport a / route r)
    werr,         \* per worker: error being sent
    after,        \* per worker: position after the error send
    tmp,          \* per worker: f.destinations as loaded for append
    openBodies,   \* response bodies obtained and not closed
    failed,       \* per worker: hit an error that ends its fetch (history)
    rates,        \* f.rates
    ri,           \* fetchExchangeRates: index of the currency being fetched
    days,         \* fetchPrices: the day sequence
    routesCh,     \* work channel of fetchPrices: next index to send, closed flag
    counter,      \* fetchPrices: running total of flights
    errors,       \* fetchPrices: number of errors drained
    day,          \* per worker: index of the day being fetched
    flights,      \* per worker: the decoded flights response
    fi,           \* per worker: index of the flight being converted
    fetched,      \* fetchPrices: fetches performed per (route, day) (history)
    persisted     \* fetchPrices: flights stored by InsertFlights (history)

vars == << remote, cfg, mpc, stages, ret, nextId, airports, destinations, mu, airportsCh,
           c, errc, wg, sup, err, recorded, pc, cur, werr, after, tmp, openBodies, failed,
           rates, ri, days, routesCh, counter, errors, day, flights, fi, fetched, persisted >>

priceVars == << rates, ri, days, routesCh, counter, errors, day, flights, fi, fetched,
               persisted >>
mainVars == << mpc, stages, ret, err >>
storeVars == << nextId, airports, destinations, mu >>
chanVars == << airportsCh, c, errc, wg, sup, recorded >>
workerVars == << pc, cur, werr, after, tmp, openBodies, failed >>

Active == 1..cfg.WorkersNo

\* a feeder as NewFeeder returns it, nothing fetched yet
Fresh ==
    /\ stages = << >>
    /\ ret = [s \in {StageOrder[i] : i \in 1..Len(StageOrder)} |-> "notrun"]
    /\ nextId \in FirstIds
    /\ airports = << >>
    /\ destinations = << >>
    /\ mu = 0
    /\ airportsCh = [pending |-> {}, closed |-> FALSE]
    /\ c = [closed |-> FALSE]
    /\ errc = [buf |-> << >>, closed |-> FALSE]
    /\ wg = 0
    /\ sup = "none"
    /\ err = Nil
    /\ recorded = << >>
    /\ pc = [w \in Workers |-> "none"]
    /\ cur = [w \in Workers |-> ZeroAirport]
    /\ werr = [w \in Workers |-> Nil]
    /\ after = [w \in Workers |-> "none"]
    /\ tmp = [w \in Workers |-> << >>]
    /\ openBodies = 0
    /\ failed = [w \in Workers |-> FALSE]
    /\ rates = << >>
    /\ ri = 0
    /\ days = << >>
    /\ routesCh = [next |-> 1, closed |-> FALSE]
    /\ counter = 0
    /\ errors = 0
    /\ day = [w \in Workers |-> 0]
    /\ flights = [w \in Workers |-> << >>]
    /\ fi = [w \in Workers |-> 0]
    /\ fetched = << >>
    /\ persisted = 0

Init ==
    /\ remote \in Remotes
    /\ \E clear \in BOOLEAN, n \in 1..MaxWorkers, range \in DateRanges :
         cfg = [ClearDb |-> clear, WorkersNo |-> n, From |-> range.From, To |-> range.To,
                Currencies |-> << "EUR", "GBP" >>]
    /\ mpc = "start"
    /\ Fresh

\* ------------------------------------------------------------------ Start
\* where Start continues after a stage that returned nil
AfterStage(stage) ==
    CASE stage = "clearDB" -> "airports"
      [] stage = "fetchAirports" -> "routes"
      [] stage = "fetchRoutes" -> "rates"
      [] stage = "fetchExchangeRates" -> "prices"
      [] OTHER -> "done"

\* the error is logged and Start goes on
LogAndGoOn(stage, e) ==
    /\ mpc' = AfterStage(stage)
    /\ ret' = [ret EXCEPT ![stage] = e]

\* log.Fatalf: the process exits, every goroutine with it
Fatal(stage, e) ==
    /\ mpc' = "failed"
    /\ ret' = [ret EXCEPT ![stage] = e]

\* the store is never cleared
NeverClear == "airports"

\* Start, line 68: the clear-store flag decides the first stage
FirstStage == IF cfg.ClearDb THEN "clearDB" ELSE "airports"

StartRun ==
    /\ mpc = "start"
    /\ mpc' = FirstStage
    /\ UNCHANGED << remote, cfg, priceVars, stages, ret, err, storeVars, chanVars, workerVars >>

\* clearDB: f.dao.ClearDB() deletes every node and edge, or fails
ClearDB ==
    /\ mpc = "clearDB"
    /\ stages' = Append(stages, "clearDB")
    /\ \E e \in {Nil, "storage"} :
         IF e = Nil
         THEN /\ mpc' = AfterStage("clearDB")
              /\ ret' = [ret EXCEPT !["clearDB"] = Nil]
         ELSE Fatal("clearDB", e)
    /\ UNCHANGED << remote, cfg, priceVars, err, storeVars, chanVars, workerVars >>

\* the copy is indexed as decoded, before Insert sets its ID
IndexOfUnstamped(k, base) ==
    [code \in {AirportsListing[i].Iata : i \in 1..k} |->
        [ID |-> 0, Iata |-> code,
         Currency |-> (CHOOSE a \in {AirportsListing[i] : i \in 1..k} : a.Iata = code).Currency,
         Destinations |-> << >>]]

\* the index after inserting the first k airports of the listing
RECURSIVE IndexOf(_, _)
IndexOf(k, base) ==
    IF k = 0 THEN << >>
    ELSE LET a == AirportsListing[k]
             rec == [ID |-> base + k - 1, Iata |-> a.Iata, Currency |-> a.Currency,
                     Destinations |-> << >>]
         IN  (a.Iata :> rec) @@ IndexOf(k - 1, base)

\* fetchAirports: one GET, then Insert and index every airport in order
FetchAirports ==
    /\ mpc = "airports"
    /\ stages' = Append(stages, "fetchAirports")
    /\ \/ \E e \in FetchErrors :
            /\ Fatal("fetchAirports", e)
            /\ UNCHANGED << nextId, airports >>
       \/ \E k \in 1..Len(AirportsListing) :
            \* Insert of airport k fails: the first k-1 are indexed
            /\ Fatal("fetchAirports", "storage")
            /\ airports' = IndexOf(k - 1, nextId)
            /\ nextId' = nextId + k - 1
       \/ /\ airports' = IndexOf(Len(AirportsListing), nextId)
          /\ nextId' = nextId + Len(AirportsListing)
          /\ mpc' = AfterStage("fetchAirports")
          /\ ret' = [ret EXCEPT !["fetchAirports"] = Nil]
    /\ UNCHANGED << remote, cfg, priceVars, err, destinations, mu, chanVars, workerVars >>

\* ------------------------------------------------- worker pool, both stages
InRoutes == mpc \in {"routes_drainC", "routes_drainErr"}
InPrices == mpc \in {"prices_drainC", "prices_drainErr"}

\* errc <- e on a channel of capacity ErrcCap: blocks while the buffer is full
SendErrOp(w) ==
    /\ pc[w] = "senderr"
    /\ Len(errc.buf) < ErrcCap
    /\ errc' = [errc EXCEPT !.buf = Append(@, werr[w])]
    /\ recorded' = Append(recorded, werr[w])
    /\ pc' = [pc EXCEPT ![w] = after[w]]
    /\ werr' = [werr EXCEPT ![w] = Nil]
    /\ after' = [after EXCEPT ![w] = "none"]

\* the body left open by a worker's fetch ending with error e: a non-200
\* status closes it, a decode failure does not
Leaked(e) == IF e = "decode" THEN 1 ELSE 0

\* a worker hits error e; where it goes once the error is sent
Report(w, e, then) ==
    /\ werr' = [werr EXCEPT ![w] = e]
    /\ after' = [after EXCEPT ![w] = then]
    /\ pc' = [pc EXCEPT ![w] = "senderr"]
    /\ failed' = [failed EXCEPT ![w] = TRUE]

\* go func() { worker(...); wg.Done() }
WorkerDoneOp(w) ==
    /\ pc[w] = "exit"
    /\ pc' = [pc EXCEPT ![w] = "done"]
    /\ wg' = wg - 1

\* the pool as started by a stage: channels, wait group, workers, supervisor
StartPool ==
    /\ c' = [closed |-> FALSE]
    /\ errc' = [buf |-> << >>, closed |-> FALSE]
    /\ wg' = cfg.WorkersNo
    /\ sup' = "wait"
    /\ err' = Nil
    /\ recorded' = << >>
    /\ pc' = [w \in Workers |-> IF w \in Active THEN "recv" ELSE "none"]
    /\ werr' = [w \in Workers |-> Nil]
    /\ after' = [w \in Workers |-> "none"]
    /\ failed' = [w \in Workers |-> FALSE]

\* the supervisor does not wait for the workers
WaitSkipped == TRUE

\* wg.Wait() returns
WaitDone == wg = 0

\* wg.Wait(); close(c)
SupCloseCOp ==
    /\ sup = "wait"
    /\ WaitDone
    /\ c' = [c EXCEPT !.closed = TRUE]
    /\ sup' = "closeErrc"

\* close(errc)
SupCloseErrcOp ==
    /\ sup = "closeErrc"
    /\ errc' = [errc EXCEPT !.closed = TRUE]
    /\ sup' = "done"

\* for e := range errc { err = e }
RecvErrOp ==
    /\ errc.buf # << >>
    /\ err' = Head(errc.buf)
    /\ errc' = [errc EXCEPT !.buf = Tail(@)]

\* ------------------------------------------------------------ fetchRoutes
\* fetchRoutes, lines 135-161: the producer, the workers and the supervisor start
FetchRoutesBegin ==
    /\ mpc = "routes"
    /\ mpc' = "routes_drainC"
    /\ stages' = Append(stages, "fetchRoutes")
    /\ ret' = [ret EXCEPT !["fetchRoutes"] = "running"]
    /\ airportsCh' = [pending |-> DOMAIN airports, closed |-> FALSE]
    /\ StartPool
    /\ UNCHANGED << remote, cfg, priceVars, storeVars, cur, tmp, openBodies >>

\* for a := range airports: the producer's send meets this worker's receive;
\* the order of a map iteration is not fixed
RecvAirport(w) ==
    /\ InRoutes
    /\ pc[w] = "recv"
    /\ \E k \in airportsCh.pending :
         /\ cur' = [cur EXCEPT ![w] = airports[k]]
         /\ airportsCh' = [airportsCh EXCEPT !.pending = @ \ {k}]
    /\ pc' = [pc EXCEPT ![w] = "fetch"]
    /\ UNCHANGED << remote, cfg, priceVars, mainVars, storeVars, c, errc, wg, sup, recorded,
                    werr, after, tmp, openBodies, failed >>

\* defer close(airports)
CloseAirports ==
    /\ InRoutes
    /\ airportsCh.pending = {}
    /\ ~airportsCh.closed
    /\ airportsCh' = [airportsCh EXCEPT !.closed = TRUE]
    /\ UNCHANGED << remote, cfg, priceVars, mainVars, storeVars, c, errc, wg, sup, recorded, workerVars >>

\* range over the closed work channel ends the worker's loop; the worker
\* returns and wg.Done() follows
RouteWorkerEnd(w) ==
    /\ InRoutes
    /\ pc[w] = "recv"
    /\ airportsCh.closed
    /\ pc' = [pc EXCEPT ![w] = "done"]
    /\ wg' = wg - 1
    /\ UNCHANGED << remote, cfg, priceVars, mainVars, storeVars, airportsCh, c, errc, sup, recorded,
                    cur, werr, after, tmp, openBodies, failed >>

\* the routes as decoded from the destinations response: From and To unset
Decoded(iata) ==
    [i \in 1..Len(remote[iata]) |->
        [IataFrom |-> remote[iata][i].IataFrom,
         IataTo |-> remote[iata][i].IataTo,
         From |-> ZeroRef, To |-> ZeroRef]]

\* lines 185-210: build the request, GET, check the status, decode
FetchDestinations(w) ==
    /\ InRoutes
    /\ pc[w] = "fetch"
    /\ \/ \E e \in FetchErrors :
            /\ Report(w, e, "exit")
            /\ openBodies' = openBodies + Leaked(e)
            /\ UNCHANGED cur
       \/ /\ cur' = [cur EXCEPT ![w].Destinations = Decoded(cur[w].Iata)]
          /\ pc' = [pc EXCEPT ![w] = "resolve"]
          /\ UNCHANGED << werr, after, failed, openBodies >>
    /\ UNCHANGED << remote, cfg, priceVars, mainVars, storeVars, chanVars, tmp >>

\* lines 212-219: From is the index entry of the airport; To is looked up
\* when the route's origin code is in the index
Resolve(idx, a, r) ==
    [r EXCEPT !.From = RefOf(Lookup(idx, a.Iata)),
              !.To = IF r.IataFrom \in DOMAIN idx
                     THEN RefOf(Lookup(idx, r.IataTo))
                     ELSE r.To]

ResolveRoutes(w) ==
    /\ InRoutes
    /\ pc[w] = "resolve"
    /\ cur' = [cur EXCEPT ![w].Destinations =
                 [i \in 1..Len(cur[w].Destinations) |->
                     Resolve(airports, cur[w], cur[w].Destinations[i])]]
    /\ pc' = [pc EXCEPT ![w] = "insert"]
    /\ UNCHANGED << remote, cfg, priceVars, mainVars, storeVars, chanVars, werr, after, tmp, openBodies, failed >>

\* lines 221-224: a storage error is sent on errc and the iteration goes on
InsertRoutes(w) ==
    /\ InRoutes
    /\ pc[w] = "insert"
    /\ \/ /\ pc' = [pc EXCEPT ![w] = "lock"]
          /\ UNCHANGED << werr, after, failed >>
       \/ Report(w, "storage", "lock")
    /\ UNCHANGED << remote, cfg, priceVars, mainVars, storeVars, chanVars, cur, tmp, openBodies >>

RouteSendErr(w) ==
    /\ InRoutes
    /\ SendErrOp(w)
    /\ UNCHANGED << remote, cfg, priceVars, mainVars, storeVars, airportsCh, c, wg, sup, cur, tmp, openBodies, failed >>

\* a lock that excludes nobody
MuIgnored == TRUE

\* f.mu.Lock() goes through when nobody holds the mutex
MuFree == mu = 0

Lock(w) ==
    /\ InRoutes
    /\ pc[w] = "lock"
    /\ MuFree
    /\ mu' = w
    /\ pc' = [pc EXCEPT ![w] = "update"]
    /\ UNCHANGED << remote, cfg, priceVars, mainVars, nextId, airports, destinations, chanVars,
                    cur, werr, after, tmp, openBodies, failed >>

\* line 227, and the load of f.destinations on line 228
UpdateIndex(w) ==
    /\ InRoutes
    /\ pc[w] = "update"
    /\ airports' = [airports EXCEPT ![cur[w].Iata] = cur[w]]
    /\ tmp' = [tmp EXCEPT ![w] = destinations]
    /\ pc' = [pc EXCEPT ![w] = "append"]
    /\ UNCHANGED << remote, cfg, priceVars, mainVars, nextId, destinations, mu, chanVars,
                    cur, werr, after, openBodies, failed >>

\* line 228: the store of append(f.destinations, a.Destinations...)
AppendRoutes(w) ==
    /\ InRoutes
    /\ pc[w] = "append"
    /\ destinations' = tmp[w] \o cur[w].Destinations
    /\ tmp' = [tmp EXCEPT ![w] = << >>]
    /\ pc' = [pc EXCEPT ![w] = "unlock"]
    /\ UNCHANGED << remote, cfg, priceVars, mainVars, nextId, airports, mu, chanVars,
                    cur, werr, after, openBodies, failed >>

\* f.mu.Unlock()
Unlock(w) ==
    /\ InRoutes
    /\ pc[w] = "unlock"
    /\ mu' = 0
    /\ pc' = [pc EXCEPT ![w] = "sendres"]
    /\ UNCHANGED << remote, cfg, priceVars, mainVars, nextId, airports, destinations, chanVars,
                    cur, werr, after, tmp, openBodies, failed >>

\* line 231 meets line 164: c is unbuffered, fetchRoutes receives and logs
RouteSendResult(w) ==
    /\ mpc = "routes_drainC"
    /\ pc[w] = "sendres"
    /\ pc' = [pc EXCEPT ![w] = "recv"]
    /\ UNCHANGED << remote, cfg, priceVars, mainVars, storeVars, chanVars, cur, werr, after, tmp, openBodies, failed >>

RouteWorkerDone(w) ==
    /\ InRoutes
    /\ WorkerDoneOp(w)
    /\ UNCHANGED << remote, cfg, priceVars, mainVars, storeVars, airportsCh, c, errc, sup, recorded,
                    cur, werr, after, tmp, openBodies, failed >>

RouteSupCloseC ==
    /\ InRoutes
    /\ SupCloseCOp
    /\ UNCHANGED << remote, cfg, priceVars, mainVars, storeVars, airportsCh, errc, wg, recorded, workerVars >>

RouteSupCloseErrc ==
    /\ InRoutes
    /\ SupCloseErrcOp
    /\ UNCHANGED << remote, cfg, priceVars, mainVars, storeVars, airportsCh, c, wg, recorded, workerVars >>

\* the range over c ends when c is closed
RoutesResultsDone ==
    /\ mpc = "routes_drainC"
    /\ c.closed
    /\ mpc' = "routes_drainErr"
    /\ UNCHANGED << remote, cfg, priceVars, stages, ret, err, storeVars, chanVars, workerVars >>

RoutesRecvErr ==
    /\ mpc = "routes_drainErr"
    /\ RecvErrOp
    /\ UNCHANGED << remote, cfg, priceVars, mpc, stages, ret, storeVars, airportsCh, c, wg, sup, recorded, workerVars >>

\* what a stage returns after draining errc
StageResult(e) == e

\* lines 174-180
RoutesReturn ==
    /\ mpc = "routes_drainErr"
    /\ errc.buf = << >>
    /\ errc.closed
    /\ IF StageResult(err) # Nil
       THEN Fatal("fetchRoutes", StageResult(err))
       ELSE /\ mpc' = AfterStage("fetchRoutes")
            /\ ret' = [ret EXCEPT !["fetchRoutes"] = Nil]
    /\ UNCHANGED << remote, cfg, priceVars, stages, err, storeVars, chanVars, workerVars >>

\* the accesses of f.airports that take no lock: the producer's range over
\* the map (lines 137-139: the next element, or the end of the range) and a
\* worker's lookups of lines 213-217
ProducerReads(w) ==
    \/ airportsCh.pending = {} /\ ~airportsCh.closed
    \/ airportsCh.pending # {} /\ \E v \in Workers \ {w} : pc[v] = "recv"

WorkerReads(w) == \E v \in Workers \ {w} : pc[v] = "resolve"

\* a worker is about to write f.airports (line 227) while another task is
\* about to read it: nothing orders the two accesses
IndexRace ==
    /\ InRoutes
    /\ \E w \in Workers : pc[w] = "update" /\ (ProducerReads(w) \/ WorkerReads(w))

\* the Go runtime stops the process when a map is read or ranged over while
\* it is written ("concurrent map read and map write", "concurrent map
\* iteration and map write"); when it does not notice, the read sees the
\* entry as it is before or after the write
MapFault ==
    /\ IndexRace
    /\ mpc' = "crashed"
    /\ UNCHANGED << remote, cfg, priceVars, stages, ret, err, storeVars, chanVars, workerVars >>

RouteStage ==
    \/ FetchRoutesBegin
    \/ MapFault
    \/ CloseAirports
    \/ RouteSupCloseC
    \/ RouteSupCloseErrc
    \/ RoutesResultsDone
    \/ RoutesRecvErr
    \/ RoutesReturn
    \/ \E w \in Workers :
         \/ RecvAirport(w)
         \/ RouteWorkerEnd(w)
         \/ FetchDestinations(w)
         \/ ResolveRoutes(w)
         \/ InsertRoutes(w)
         \/ RouteSendErr(w)
         \/ Lock(w)
         \/ UpdateIndex(w)
         \/ AppendRoutes(w)
         \/ Unlock(w)
         \/ RouteSendResult(w)
         \/ RouteWorkerDone(w)

\* ----------------------------------------------------- fetchExchangeRates
\* line 358: f.rates = make(...)
FetchExchangeRatesBegin ==
    /\ mpc = "rates"
    /\ mpc' = "rates_loop"
    /\ stages' = Append(stages, "fetchExchangeRates")
    /\ ret' = [ret EXCEPT !["fetchExchangeRates"] = "running"]
    /\ rates' = << >>
    /\ ri' = 1
    /\ UNCHANGED << remote, cfg, err, storeVars, chanVars, workerVars,
                    days, routesCh, counter, errors, day, flights, fi, fetched, persisted >>

\* lines 359-392: one currency; any failure returns at once
FetchRate ==
    /\ mpc = "rates_loop"
    /\ ri <= Len(cfg.Currencies)
    /\ \/ \E e \in FetchErrors \cup {"parse"} :
            /\ Fatal("fetchExchangeRates", e)
            /\ UNCHANGED << rates, ri >>
       \/ /\ rates' = (cfg.Currencies[ri] :> RateOf(cfg.Currencies[ri])) @@ rates
          /\ ri' = ri + 1
          /\ UNCHANGED << mpc, ret >>
    /\ UNCHANGED << remote, cfg, stages, err, storeVars, chanVars, workerVars,
                    days, routesCh, counter, errors, day, flights, fi, fetched, persisted >>

\* the loop ends after the first currency
FirstCurrencyDone == ri > 1

\* for _, c := range f.c.Currencies: the range is exhausted
AllCurrenciesDone == ri > Len(cfg.Currencies)

\* line 394
RatesReturn ==
    /\ mpc = "rates_loop"
    /\ AllCurrenciesDone
    /\ mpc' = AfterStage("fetchExchangeRates")
    /\ ret' = [ret EXCEPT !["fetchExchangeRates"] = Nil]
    /\ UNCHANGED << remote, cfg, stages, err, storeVars, chanVars, workerVars, priceVars >>

\* ------------------------------------------------------------ fetchPrices
\* the spacing of the floats around x (x in units of 1/FixedOne)
RECURSIVE Ulp(_)
Ulp(x) == IF x < 2^Mantissa THEN 1 ELSE 2 * Ulp(x \div 2)

\* the float nearest to num/den, ties to the even significand
RoundFloat(num, den) ==
    LET u == Ulp(num \div den)
        k == num \div (den * u)
        r == num - k * den * u
        up == 2 * r > den * u \/ (2 * r = den * u /\ k % 2 = 1)
    IN  (k + (IF up THEN 1 ELSE 0)) * u

\* Duration.Hours() of d >= 0: float64(d / Hour) + float64(d % Hour) / Hour
Hours(d) ==
    LET whole == RoundFloat((d \div HourTicks) * FixedOne, 1)
        part == RoundFloat((d % HourTicks) * FixedOne, HourTicks)
    IN  RoundFloat(whole + part, 1)

\* int(duration.Hours() / 24): the sign goes through every step unchanged,
\* the conversion to int drops the fraction
WholeDays(d) ==
    IF d >= 0
    THEN RoundFloat(Hours(d), 24) \div FixedOne
    ELSE -(RoundFloat(Hours(-d), 24) \div FixedOne)

\* genDays
genDays(from, to) ==
    LET n == WholeDays(to - from)
    IN  [i \in 1..(n + 1) |-> from + (i - 1) * DayTicks]

ZeroRoute == [IataFrom |-> "", IataTo |-> "", From |-> ZeroRef, To |-> ZeroRef]

\* fetchPrices, lines 237-263
FetchPricesBegin ==
    /\ mpc = "prices"
    /\ mpc' = "prices_drainC"
    /\ stages' = Append(stages, "fetchPrices")
    /\ ret' = [ret EXCEPT !["fetchPrices"] = "running"]
    /\ days' = genDays(cfg.From, cfg.To)
    /\ routesCh' = [next |-> 1, closed |-> FALSE]
    /\ counter' = 0
    /\ errors' = 0
    /\ persisted' = 0
    /\ fetched' = [p \in (1..Len(destinations)) \X (1..Len(days')) |-> 0]
    /\ StartPool
    /\ cur' = [w \in Workers |-> ZeroRoute]
    /\ UNCHANGED << remote, cfg, storeVars, airportsCh, tmp, openBodies, rates, ri, day, flights, fi >>

\* for r := range routes: the producer sends f.destinations in order
RecvRoute(w) ==
    /\ InPrices
    /\ pc[w] = "recv"
    /\ routesCh.next <= Len(destinations)
    /\ cur' = [cur EXCEPT ![w] = destinations[routesCh.next]]
    /\ routesCh' = [routesCh EXCEPT !.next = @ + 1]
    /\ day' = [day EXCEPT ![w] = 1]
    /\ pc' = [pc EXCEPT ![w] = IF days = << >> THEN "recv" ELSE "fetch"]
    /\ UNCHANGED << remote, cfg, mainVars, storeVars, chanVars, werr, after, tmp, openBodies, failed,
                    rates, ri, days, counter, errors, flights, fi, fetched, persisted >>

\* defer close(routes)
CloseRoutes ==
    /\ InPrices
    /\ routesCh.next > Len(destinations)
    /\ ~routesCh.closed
    /\ routesCh' = [routesCh EXCEPT !.closed = TRUE]
    /\ UNCHANGED << remote, cfg, mainVars, storeVars, chanVars, workerVars,
                    rates, ri, days, counter, errors, day, flights, fi, fetched, persisted >>

\* the range over the closed work channel ends: the worker returns and
\* wg.Done() follows
PriceWorkerEnd(w) ==
    /\ InPrices
    /\ pc[w] = "recv"
    /\ routesCh.closed
    /\ pc' = [pc EXCEPT ![w] = "done"]
    /\ wg' = wg - 1
    /\ UNCHANGED << remote, cfg, mainVars, storeVars, airportsCh, c, errc, sup, recorded,
                    cur, werr, after, tmp, openBodies, failed, priceVars >>

\* a worker's locals once its loop over the days is left
LeaveRoute(w) ==
    /\ cur' = [cur EXCEPT ![w] = ZeroRoute]
    /\ day' = [day EXCEPT ![w] = 0]
    /\ flights' = [flights EXCEPT ![w] = << >>]
    /\ fi' = [fi EXCEPT ![w] = 0]

\* lines 339-343
Stamp(o, r, rate) ==
    [o EXCEPT !.ValueExchanged = o.Value * rate,
              !.FromID = r.From.ID,
              !.ToID = r.To.ID]

\* rate, ok := f.rates[r.From.Country.Currency]
HasRate(r) == r.From.Currency \in DOMAIN rates

\* lines 346-349: InsertFlights stores the batch or fails; a failure breaks
\* out of the loop over the days
InsertFlights(w, batch) ==
    \/ /\ pc' = [pc EXCEPT ![w] = "sendres"]
       /\ flights' = [flights EXCEPT ![w] = batch]
       /\ fi' = [fi EXCEPT ![w] = Len(batch) + 1]
       /\ persisted' = persisted + Len(batch)
       /\ UNCHANGED << werr, after, failed, cur, day >>
    \/ /\ Report(w, "storage", "recv")
       /\ LeaveRoute(w)
       /\ UNCHANGED persisted

\* lines 331-344 from flight i on, up to the next channel operation: with a
\* rate every flight is stamped and the batch goes to InsertFlights; without
\* one the error of flight i is sent on errc and the flight is skipped
ConvertFrom(w, batch, i) ==
    IF i > Len(batch)
    THEN InsertFlights(w, batch)
    ELSE IF HasRate(cur[w])
    THEN InsertFlights(w, [k \in 1..Len(batch) |->
                             IF k >= i
                             THEN Stamp(batch[k], cur[w], rates[cur[w].From.Currency])
                             ELSE batch[k]])
    ELSE /\ werr' = [werr EXCEPT ![w] = "rate"]
         /\ after' = [after EXCEPT ![w] = "convert"]
         /\ pc' = [pc EXCEPT ![w] = "senderr"]
         /\ flights' = [flights EXCEPT ![w] = batch]
         /\ fi' = [fi EXCEPT ![w] = i]
         /\ UNCHANGED << failed, cur, day, persisted >>

\* the position of route r in f.destinations (the routes of the listing are
\* distinct)
RouteNo(r) == CHOOSE i \in 1..Len(destinations) : destinations[i] = r

\* f.client.Do(req) on line 310: one more fetch of the worker's (route, day)
Fetch(w) == [fetched EXCEPT ![<< RouteNo(cur[w]), day[w] >>] = @ + 1]

\* lines 303-329, then the loop over the flights: a failure breaks out of
\* the loop over the days only
FetchFlights(w) ==
    /\ InPrices
    /\ pc[w] = "fetch"
    /\ \/ \E e \in FetchErrors :
            /\ Report(w, e, "recv")
            /\ openBodies' = openBodies + Leaked(e)
            /\ fetched' = IF e = "request" THEN fetched ELSE Fetch(w)
            /\ LeaveRoute(w)
            /\ UNCHANGED persisted
       \/ \E n \in 0..MaxFlights :
            /\ ConvertFrom(w, FlightsResponse(n), 1)
            /\ fetched' = Fetch(w)
            /\ UNCHANGED openBodies
    /\ UNCHANGED << remote, cfg, mainVars, storeVars, chanVars, tmp,
                    rates, ri, days, routesCh, counter, errors >>

\* line 336: continue with the flight after the one whose rate was missing
ConvertNext(w) ==
    /\ InPrices
    /\ pc[w] = "convert"
    /\ ConvertFrom(w, flights[w], fi[w] + 1)
    /\ UNCHANGED << remote, cfg, mainVars, storeVars, chanVars, tmp, openBodies,
                    rates, ri, days, routesCh, counter, errors, fetched >>

PriceSendErr(w) ==
    /\ InPrices
    /\ SendErrOp(w)
    /\ UNCHANGED << remote, cfg, mainVars, storeVars, airportsCh, c, wg, sup, cur, tmp, openBodies, failed,
                    priceVars >>

\* every result counts as one flight
ResultOne(batch) == Len(<< batch >>)

\* FetchResult.No: len(flights.Flights)
ResultNo(batch) == Len(batch)

\* the worker leaves a route after its first day
OneDayOnly(w) == FALSE

\* for _, day := range days: the range has a further day
MoreDays(w) == day[w] < Len(days)

\* line 351 meets lines 267-270; then the next day, or the next route
PriceSendResult(w) ==
    /\ mpc = "prices_drainC"
    /\ pc[w] = "sendres"
    /\ counter' = counter + ResultNo(flights[w])
    /\ IF MoreDays(w)
       THEN /\ pc' = [pc EXCEPT ![w] = "fetch"]
            /\ day' = [day EXCEPT ![w] = @ + 1]
            /\ flights' = [flights EXCEPT ![w] = << >>]
            /\ fi' = [fi EXCEPT ![w] = 0]
            /\ UNCHANGED cur
       ELSE /\ pc' = [pc EXCEPT ![w] = "recv"]
            /\ LeaveRoute(w)
    /\ UNCHANGED << remote, cfg, mainVars, storeVars, chanVars, werr, after, tmp, openBodies, failed,
                    rates, ri, days, routesCh, errors, fetched, persisted >>

PriceSupCloseC ==
    /\ InPrices
    /\ SupCloseCOp
    /\ UNCHANGED << remote, cfg, mainVars, storeVars, airportsCh, errc, wg, recorded, workerVars,
                    priceVars >>

PriceSupCloseErrc ==
    /\ InPrices
    /\ SupCloseErrcOp
    /\ UNCHANGED << remote, cfg, mainVars, storeVars, airportsCh, c, wg, recorded, workerVars,
                    priceVars >>

PricesResultsDone ==
    /\ mpc = "prices_drainC"
    /\ c.closed
    /\ mpc' = "prices_drainErr"
    /\ UNCHANGED << remote, cfg, stages, ret, err, storeVars, chanVars, workerVars, priceVars >>

\* lines 273-277
PricesRecvErr ==
    /\ mpc = "prices_drainErr"
    /\ RecvErrOp
    /\ errors' = errors + 1
    /\ UNCHANGED << remote, cfg, mpc, stages, ret, storeVars, airportsCh, c, wg, sup, recorded,
                    workerVars, rates, ri, days, routesCh, counter, day, flights, fi, fetched,
                    persisted >>

\* lines 279-285; Start returns after the last stage
PricesReturn ==
    /\ mpc = "prices_drainErr"
    /\ errc.buf = << >>
    /\ errc.closed
    /\ IF StageResult(err) # Nil
       THEN Fatal("fetchPrices", StageResult(err))
       ELSE /\ mpc' = AfterStage("fetchPrices")
            /\ ret' = [ret EXCEPT !["fetchPrices"] = Nil]
    /\ UNCHANGED << remote, cfg, stages, err, storeVars, chanVars, workerVars, priceVars >>

PriceStage ==
    \/ FetchPricesBegin
    \/ CloseRoutes
    \/ PriceSupCloseC
    \/ PriceSupCloseErrc
    \/ PricesResultsDone
    \/ PricesRecvErr
    \/ PricesReturn
    \/ \E w \in Workers :
         \/ RecvRoute(w)
         \/ PriceWorkerEnd(w)
         \/ FetchFlights(w)
         \/ ConvertNext(w)
         \/ PriceSendErr(w)
         \/ PriceSendResult(w)

Next ==
    \/ StartRun
    \/ ClearDB
    \/ FetchAirports
    \/ RouteStage
    \/ FetchExchangeRatesBegin
    \/ FetchRate
    \/ RatesReturn
    \/ PriceStage

Spec == Init /\ [][Next]_vars

\* ------------------------------------------------- genDays on its own
\* any two times of the range as the configured From and To
DaysInit ==
    /\ remote \in Remotes
    /\ \E from \in 0..MaxTick, to \in 0..MaxTick :
         cfg = [ClearDb |-> FALSE, WorkersNo |-> 1, From |-> from, To |-> to,
                Currencies |-> << "EUR", "GBP" >>]
    /\ mpc = "genDays"
    /\ Fresh

\* line 237: days := genDays(f.c.From, f.c.To)
GenDays ==
    /\ mpc = "genDays"
    /\ mpc' = "generated"
    /\ days' = genDays(cfg.From, cfg.To)
    /\ UNCHANGED << remote, cfg, stages, ret, err, storeVars, chanVars, workerVars,
                    rates, ri, routesCh, counter, errors, day, flights, fi, fetched, persisted >>

DaysNext == GenDays

DaysSpec == DaysInit /\ [][DaysNext]_vars

\* ================================================================ claims
IsError(e) == e \notin {"notrun", "running", Nil}

Returned(stage) == ret[stage] \notin {"notrun", "running"}

Count(seq, x) == Cardinality({i \in 1..Len(seq) : seq[i] = x})

\* the routes of origin k as the stage leaves them: decoded and resolved
ExpectedRoutes(k) ==
    [i \in 1..Len(remote[k]) |-> Resolve(airports, airports[k], Decoded(k)[i])]

RECURSIVE ExpectedCount(_, _)
ExpectedCount(n, r) ==
    IF n = 0 THEN 0
    ELSE Count(ExpectedRoutes(AirportsListing[n].Iata), r) + ExpectedCount(n - 1, r)

RECURSIVE ExpectedTotal(_)
ExpectedTotal(n) ==
    IF n = 0 THEN 0
    ELSE Len(remote[AirportsListing[n].Iata]) + ExpectedTotal(n - 1)

\* C1: fetchRoutes always returns: while it has not returned, some task of
\* the stage (a worker, the producer, the supervisor, the draining caller)
\* can take a step, so no worker stays blocked on the error channel.
C1_FetchRoutesReturns == InRoutes => ENABLED Next

\* C2: when fetchRoutes returns without error, whatever the worker count and
\* the interleaving, every airport of the index holds exactly the routes its
\* destinations response gives, and the global route list holds every such
\* route exactly as often as the responses do: nothing lost, nothing twice.
C2_NoLostUpdate ==
    ret["fetchRoutes"] = Nil =>
        /\ DOMAIN airports = Codes
        /\ \A k \in Codes : airports[k].Destinations = ExpectedRoutes(k)
        /\ Len(destinations) = ExpectedTotal(Len(AirportsListing))
        /\ \A i \in 1..Len(destinations) :
             Count(destinations, destinations[i])
                = ExpectedCount(Len(AirportsListing), destinations[i])

\* two workers finished the route stage, the second airport's routes first
C2_Witness ==
    /\ ret["fetchRoutes"] = Nil
    /\ cfg.WorkersNo >= 2
    /\ Len(destinations) = 2
    /\ destinations[1].From.Iata = "BBB"

\* C3: in the price stage a worker that hit a request, transport, status,
\* decode or storage error receives no further route and performs no
\* further fetch.
C3_FailedWorkerStops ==
    [][\A w \in Workers :
          (InPrices /\ failed[w]) =>
              /\ ~(pc[w] = "recv" /\ pc'[w] = "fetch")
              /\ ~(pc[w] = "fetch" /\ pc'[w] # "fetch")]_vars

\* C4: in the route stage a worker that reported an error for an airport
\* leaves its loop: it only sends the error and finishes; it does not lock,
\* update the index, append routes, send a progress message or receive.
C4_FailedRouteWorkerLeaves ==
    [][\A w \in Workers :
          (InRoutes /\ failed[w]) => pc'[w] \in {"senderr", "exit", "done"}]_vars

\* C5: a worker that found no rate for a flight of a response still reaches
\* InsertFlights for that response: it is never left blocked for good on the
\* send of the missing-rate error.
C5_ReachesInsertFlights ==
    \A w \in Workers :
        (InPrices /\ pc[w] = "senderr" /\ werr[w] = "rate") => ENABLED Next

\* C6: when missing-rate lookups are the only errors of a run of fetchPrices,
\* fetchPrices returns nil.
C6_MissingRateNotFatal ==
    (Returned("fetchPrices") /\ \A i \in 1..Len(recorded) : recorded[i] = "rate")
        => ret["fetchPrices"] = Nil

\* the first error the error channel accepted during the stage, or nil
FirstRecorded == IF recorded = << >> THEN Nil ELSE Head(recorded)

\* C7: fetchRoutes and fetchPrices return the first error recorded on the
\* error channel during the run, and nil exactly when none was recorded.
C7_FirstErrorReturned ==
    /\ (Returned("fetchRoutes") /\ ret["fetchPrices"] = "notrun")
          => ret["fetchRoutes"] = FirstRecorded
    /\ Returned("fetchPrices") => ret["fetchPrices"] = FirstRecorded

\* fetchRoutes returned the one error a worker recorded
C7_Witness ==
    /\ ret["fetchRoutes"] = "status"
    /\ recorded = << "status" >>

IsPrefix(s, t) == Len(s) <= Len(t) /\ \A i \in 1..Len(s) : s[i] = t[i]

\* every worker ended, the supervisor closed both channels
PoolIdle ==
    /\ \A w \in Workers : pc[w] \in {"none", "done"}
    /\ wg = 0
    /\ sup = "done"

\* C8: the stages begin in the fixed order, clearDB only when configured,
\* none twice and none after a later one; a stage begins only after the
\* stage before it returned nil, and after a worker-pool stage returned nil
\* all its workers, its producer and its supervisor have finished.
C8_StagesInOrder ==
    /\ IsPrefix(stages, IF cfg.ClearDb THEN StageOrder ELSE Tail(StageOrder))
    /\ \A i \in 2..Len(stages) : ret[stages[i - 1]] = Nil
    /\ mpc \in {"rates", "rates_loop", "prices", "done"} => (PoolIdle /\ airportsCh.closed)
    /\ mpc = "done" => routesCh.closed

\* a full run with the store cleared first
C8_Witness ==
    /\ mpc = "done"
    /\ stages = StageOrder

\* C9: once a stage returned an error the run has failed for good: it is
\* the last stage begun, no step follows, the run is not done.
C9_FailureIsFinal ==
    \A i \in 1..Len(StageOrder) :
        IsError(ret[StageOrder[i]]) =>
            /\ mpc = "failed"
            /\ stages # << >>
            /\ stages[Len(stages)] = StageOrder[i]
            /\ ~ENABLED Next

\* fetchRoutes failed after clearDB and fetchAirports succeeded
C9_Witness ==
    /\ mpc = "failed"
    /\ IsError(ret["fetchRoutes"])
    /\ ret["fetchAirports"] = Nil

\* C10: ClearDB runs only when the flag is set; when it is set it runs once,
\* first, and has returned nil before any fetch stage begins.
C10_ClearFirst ==
    /\ Count(stages, "clearDB") = (IF cfg.ClearDb /\ mpc \notin {"start", "clearDB"} THEN 1 ELSE 0)
    /\ (cfg.ClearDb /\ Len(stages) >= 1) => stages[1] = "clearDB"
    /\ (cfg.ClearDb /\ Len(stages) >= 2) => ret["clearDB"] = Nil

\* the store was cleared and the airports were fetched after it
C10_Witness ==
    /\ cfg.ClearDb
    /\ ret["clearDB"] = Nil
    /\ Len(stages) >= 2
    /\ stages[2] = "fetchAirports"

\* the node id the store issued for the k-th airport of the listing: Insert
\* creates one node per airport, in listing order
IssuedId(k) == nextId - Len(AirportsListing) + k - 1

\* C11: once fetchAirports returned nil, every airport of the listing has an
\* index entry carrying the node id Insert got from the store for it, a
\* non-zero id; this holds when the route stage begins, and in every state
\* of the route stage and after it, so the in-place updates of the index
\* entries by the route workers leave each entry's id as it was.
C11_IndexCarriesStoreIds ==
    ret["fetchAirports"] = Nil =>
        \A k \in 1..Len(AirportsListing) :
            LET code == AirportsListing[k].Iata
            IN  /\ code \in DOMAIN airports
                /\ airports[code].ID = IssuedId(k)
                /\ airports[code].ID # 0
                /\ airports[code].Iata = code

\* the route stage is running and has rewritten the entry of the second airport
C11_Witness ==
    /\ InRoutes
    /\ airports["BBB"].Destinations # << >>
    /\ airports["BBB"].ID = 2

\* C12: when a route worker has resolved the routes decoded for its airport,
\* every route's origin reference is the index entry of that airport, its
\* destination reference is the index entry of the route's destination code
\* when that code is in the index, and the zero-value Airport when it is not.
C12_DestinationResolved ==
    \A w \in Workers :
        (InRoutes /\ pc[w] = "insert") =>
            \A i \in 1..Len(cur[w].Destinations) :
                LET r == cur[w].Destinations[i]
                IN  /\ r.From = RefOf(airports[cur[w].Iata])
                    /\ r.IataTo \in DOMAIN airports => r.To = RefOf(airports[r.IataTo])
                    /\ r.IataTo \notin DOMAIN airports => r.To = ZeroRef

\* no request, transport, status or decode error was recorded in the stage
NoFetchFailed == \A i \in 1..Len(recorded) : recorded[i] \notin FetchErrors

\* neither a fetch nor InsertFlights failed in the stage
NoFetchOrStoreFailed ==
    \A i \in 1..Len(recorded) : recorded[i] \notin FetchErrors \cup {"storage"}

\* no (route, day) is fetched twice; a day of a route is fetched only after
\* the day before it; no two workers hold the same route
FetchesInOrder ==
    /\ \A p \in DOMAIN fetched : fetched[p] <= 1
    /\ \A p \in DOMAIN fetched :
         (fetched[p] >= 1 /\ p[2] > 1) => fetched[<< p[1], p[2] - 1 >>] >= 1
    /\ InPrices =>
         \A v, w \in Workers :
            (v # w /\ cur[v] # ZeroRoute) => cur[v] # cur[w]

\* every pair of (route list) x (day sequence) was fetched exactly once
AllFetchedOnce ==
    /\ DOMAIN fetched = (1..Len(destinations)) \X (1..Len(days))
    /\ \A p \in DOMAIN fetched : fetched[p] = 1

C14_FlightsStamped ==
    \A w \in Workers :
        (InPrices /\ pc[w] = "sendres") =>
            \A i \in 1..Len(flights[w]) :
                /\ flights[w][i].FromID = cur[w].From.ID
                /\ flights[w][i].ToID = cur[w].To.ID
                /\ HasRate(cur[w]) =>
                      flights[w][i].ValueExchanged
                         = flights[w][i].Value * rates[cur[w].From.Currency]

\* the errors the workers of the stage have reported: those the error
\* channel accepted and those whose send is still pending
ErrorsReported ==
    Len(recorded) + Cardinality({w \in Workers : pc[w] = "senderr"})

\* fetchPrices has left both of its draining loops
PricesDrained ==
    \/ mpc = "prices_drainErr" /\ errc.buf = << >> /\ errc.closed
    \/ Returned("fetchPrices")

\* C15: when fetchPrices has finished draining, its running total is the
\* number of flights of all batches InsertFlights stored during the stage,
\* and its error count is the number of errors the workers reported; once
\* the result channel is drained the running total is already final.
C15_TotalsMatch ==
    /\ PricesDrained => (counter = persisted /\ errors = ErrorsReported)
    /\ (mpc = "prices_drainErr") => counter = persisted

\* flights were stored and counted, and one error was reported and counted
C15_Witness ==
    /\ Returned("fetchPrices")
    /\ counter >= 3
    /\ persisted = counter
    /\ errors = 1

\* C16: for start <= end genDays returns (whole days from start to end) + 1
\* times, the first is start and each further one is 24 hours after the one
\* before it; for start = end it returns start alone.
C16_WholeDaysPlusOne ==
    (mpc = "generated" /\ cfg.From <= cfg.To) =>
        /\ Len(days) = ((cfg.To - cfg.From) \div DayTicks) + 1
        /\ days[1] = cfg.From
        /\ \A i \in 1..(Len(days) - 1) : days[i + 1] = days[i] + DayTicks
        /\ cfg.From = cfg.To => days = << cfg.From >>

\* the first n configured source currencies
Configured(n) == {cfg.Currencies[i] : i \in 1..n}

\* C17: fetchExchangeRates takes the configured currencies one after the
\* other in configured order: while it runs the table holds exactly the
\* currencies before the current one; when it returned nil the table holds
\* exactly the configured currencies, each with the rate fetched for it; when
\* it returned an error, the currency that failed and those after it were
\* not entered, nothing more is fetched and fetchPrices never begins.
C17_RatesCompleteOrFatal ==
    /\ mpc = "rates_loop" => DOMAIN rates = Configured(ri - 1)
    /\ ret["fetchExchangeRates"] = Nil =>
          /\ DOMAIN rates = Configured(Len(cfg.Currencies))
          /\ \A name \in DOMAIN rates : rates[name] = RateOf(name)
    /\ IsError(ret["fetchExchangeRates"]) =>
          /\ ri <= Len(cfg.Currencies)
          /\ DOMAIN rates = Configured(ri - 1)
          /\ ret["fetchPrices"] = "notrun"
          /\ mpc = "failed"
          /\ ~ENABLED Next
    /\ ret["fetchPrices"] # "notrun" => DOMAIN rates = Configured(Len(cfg.Currencies))

\* the second currency failed after the first was entered
C17_Witness ==
    /\ ret["fetchExchangeRates"] = "parse"
    /\ DOMAIN rates = {"EUR"}
    /\ ri = 2

\* worker w is between f.mu.Lock() and f.mu.Unlock()
InSection(w) == pc[w] \in {"update", "append", "unlock"}

\* the mutex is held exactly by the worker inside the section, so by one
\* worker at most, and by none that is fetching, resolving or storing
SectionsExclusive ==
    /\ mu \in {0} \cup Workers
    /\ \A w \in Workers : InSection(w) <=> mu = w

\* the routes of w's airport are the end of the global route list
Appended(w) ==
    LET n == Len(cur[w].Destinations)
    IN  /\ Len(destinations) >= n
        /\ SubSeq(destinations, Len(destinations) - n + 1, Len(destinations))
              = cur[w].Destinations

\* C18: in the route stage the index and the global route list change only
\* in a step of the worker that holds the mutex; at most one worker is
\* between Lock and Unlock, and none holds the mutex while it fetches or
\* calls the store; a worker releases the mutex only after both the index
\* entry and the routes of its airport are written, with no release between.
C18_MutationsUnderMutex ==
    [][/\ SectionsExclusive /\ SectionsExclusive'
       /\ (InRoutes /\ (airports' # airports \/ destinations' # destinations)) =>
             \E w \in Workers : mu = w /\ mu' = w /\ InSection(w) /\ pc'[w] # pc[w]
       /\ \A w \in Workers :
             (mu = w /\ mu' # w) =>
                 /\ pc[w] = "unlock"
                 /\ airports[cur[w].Iata] = cur[w]
                 /\ Appended(w)]_vars

\* one worker is about to release the mutex while the other waits for it
C18_Witness ==
    \E v, w \in Workers :
        /\ pc[v] = "unlock"
        /\ mu = v
        /\ pc[w] = "lock"
        /\ Len(cur[v].Destinations) > 0

\* C19: in the route stage no task reads the airport index while another
\* writes it: whenever a worker is about to write its index entry, neither
\* the producer's range over the index nor another worker's lookup can take
\* place before that write is done.
C19_NoIndexRace == ~IndexRace

\* C20: no response body stays open once the fetch that obtained it has
\* ended, whether the fetch succeeded, met a non-200 status or failed to
\* decode.
C20_BodiesClosed == openBodies = 0

\* every worker of the pool started last has returned
PoolFinished == \A w \in Active : pc[w] = "done"

\* the step leaves the airport index and the global route list as they are
IndexKept == airports' = airports /\ destinations' = destinations

\* C21: fetchRoutes returns only when every route worker has finished and
\* the lock is free, and the workers stay finished until the price pool
\* starts; from that return on no step changes the airport index or the
\* global route list; once fetchExchangeRates has returned no step changes
\* the rate table; once fetchPrices has built the day sequence no step
\* changes it.
C21_ReadOnlyAfterRoutes ==
    [][/\ (~Returned("fetchRoutes") /\ Returned("fetchRoutes")') =>
            (PoolFinished /\ mu = 0)
       /\ (Returned("fetchRoutes") /\ ret["fetchPrices"] = "notrun") =>
            PoolFinished
       /\ Returned("fetchRoutes") => IndexKept
       /\ Returned("fetchExchangeRates") => rates' = rates
       /\ ret["fetchPrices"] # "notrun" => days' = days]_vars

\* the price stage ran to its return over two routes and two days, with the
\* rate table built and flights stored
C21_Witness ==
    /\ Returned("fetchPrices")
    /\ ret["fetchRoutes"] = Nil
    /\ Len(destinations) >= 2
    /\ DOMAIN rates # {}
    /\ Len(days) = 2
    /\ persisted > 0

====
